---- MODULE Spec2Model ----
(***************************************************************************)
(* Camera controller (OrbitControls), orbital motion (SolarSystem          *)
(* .updatePlanets) and camera focus transition (SolarSystem.focusOnObject) *)
(* of the solar-system viewer, as one state machine.                       *)
(*                                                                         *)
(* Numbers.  JavaScript doubles are modelled as fixed-point integers:      *)
(*   lengths            in 1/10 scene units                                *)
(*   camera angles      in micro-radians               (PI = 3141593)      *)
(*   orbital angles     in 1e-5 rad                                        *)
(*   dimensionless factors (scale, eased, sin, cos) in 1/10000 (Scale)     *)
(*   time               in milliseconds                                    *)
(* with two values outside the finite range, NaN and Inf, that follow the  *)
(* IEEE rules of the operations the code applies to them.  Products round  *)
(* toward zero, those of setFromSpherical to the nearest.                  *)
(***************************************************************************)
EXTENDS Integers, Sequences, FiniteSets, TLC

(***************************************************************************)
(* Bounds of the model.                                                    *)
(***************************************************************************)
\* input events (mouse, wheel, touch, UI) explored per behaviour
MaxInputs == 3
\* frames explored per behaviour
MaxFrames == 4
\* focusOnObject calls explored per behaviour
MaxFocus == 2

(***************************************************************************)
(* Number representation.                                                  *)
(***************************************************************************)
Scale == 10000
NaN == -2000000000
Inf == 2000000000

IsNaN(a) == a = NaN
IsFinite(a) == a # NaN /\ a # Inf

Abs(a) == IF a < 0 THEN -a ELSE a
Sgn(a) == IF a < 0 THEN -1 ELSE IF a > 0 THEN 1 ELSE 0

\* integer quotient rounded toward zero
Quot(a, b) == IF a >= 0 THEN a \div b ELSE -((-a) \div b)

\* a * b / d on finite integers, rounded toward zero, without forming a * b
\* when a is large (|b| and d small enough that (d - 1) * |b| fits)
MulDiv(a, b, d) ==
    LET x == Abs(a)
        y == Abs(b)
        m == (x \div d) * y + ((x % d) * y) \div d
    IN  Sgn(a) * Sgn(b) * m

\* IEEE addition
FAdd(a, b) ==
    IF IsNaN(a) \/ IsNaN(b) THEN NaN
    ELSE IF a = Inf \/ b = Inf THEN Inf
    ELSE a + b

FSub(a, b) ==
    IF IsNaN(a) \/ IsNaN(b) THEN NaN
    ELSE IF b = Inf THEN NaN
    ELSE IF a = Inf THEN Inf
    ELSE a - b

\* IEEE product of a (any unit) by the factor b (in 1/Scale); Inf only ever
\* meets non-negative operands (scale and radius are never negative)
FMul(a, b) ==
    IF IsNaN(a) \/ IsNaN(b) THEN NaN
    ELSE IF a = Inf \/ b = Inf THEN (IF a = 0 \/ b = 0 THEN NaN ELSE Inf)
    ELSE MulDiv(a, b, Scale)

\* FMul rounded to the nearest instead of toward zero
FMulR(a, b) ==
    IF IsNaN(a) \/ IsNaN(b) THEN NaN
    ELSE IF a = Inf \/ b = Inf THEN (IF a = 0 \/ b = 0 THEN NaN ELSE Inf)
    ELSE Sgn(a) * Sgn(b) * ((Abs(a) * Abs(b) + Scale \div 2) \div Scale)

\* IEEE quotient of a by the factor b (in 1/Scale), a >= 0 and b >= 0
FDiv(a, b) ==
    IF IsNaN(a) \/ IsNaN(b) THEN NaN
    ELSE IF a = Inf THEN (IF b = Inf THEN NaN ELSE Inf)
    ELSE IF b = Inf THEN 0
    ELSE IF b = 0 THEN (IF a = 0 THEN NaN ELSE Inf)
    ELSE MulDiv(a, Scale, b)

\* Math.max / Math.min: NaN if either argument is NaN
MathMax(a, b) == IF IsNaN(a) \/ IsNaN(b) THEN NaN ELSE IF a >= b THEN a ELSE b
MathMin(a, b) == IF IsNaN(a) \/ IsNaN(b) THEN NaN ELSE IF a <= b THEN a ELSE b

(***************************************************************************)
(* Math.sqrt on integers: the largest r with r * r <= n, by Newton's       *)
(* iteration from a power of ten above the root.                           *)
(***************************************************************************)
RECURSIVE SqrtFrom(_, _)
SqrtFrom(n, x) ==
    LET y == (x + n \div x) \div 2
    IN  IF y >= x THEN x ELSE SqrtFrom(n, y)

ISqrt(n) ==
    IF n = 0 THEN 0
    ELSE SqrtFrom(n, IF n < 100 THEN 10
                     ELSE IF n < 10000 THEN 100
                     ELSE IF n < 1000000 THEN 1000
                     ELSE IF n < 100000000 THEN 10000
                     ELSE 46341)

(***************************************************************************)
(* Trigonometry, angles in micro-radians, values in 1/Scale.               *)
(***************************************************************************)
PI == 3141593
TwoPi == 6283185
HalfPi == 1570796

\* an angle brought into (-pi, pi]
WrapAngle(a) ==
    LET m == a % TwoPi
    IN  IF m > PI THEN m - TwoPi ELSE m

\* sin x for 0 <= x <= pi/2, by the Taylor series to x^9 in Horner form
SinPoly(u, x2) ==
    (u * (Scale - ((x2 * (Scale - ((x2 * (Scale - ((x2 * (Scale - x2 \div 72))
                                                    \div Scale) \div 42))
                                    \div Scale) \div 20))
                    \div Scale) \div 6)
     + Scale \div 2) \div Scale

SinUnits(u) == SinPoly(u, (u * u) \div Scale)

SinQuadrant(x) == SinUnits((x + 50) \div 100)

\* sin w for -pi < w <= pi
SinWrapped(w) ==
    IF w < 0 THEN -SinQuadrant(IF -w > HalfPi THEN PI + w ELSE -w)
    ELSE SinQuadrant(IF w > HalfPi THEN PI - w ELSE w)

\* Math.sin, Math.cos
Sin(a) == IF IsFinite(a) THEN SinWrapped(WrapAngle(a)) ELSE NaN
Cos(a) == IF IsFinite(a) THEN SinWrapped(WrapAngle(a + HalfPi)) ELSE NaN

\* atan z for 0 <= z <= 1 (z in 1/Scale), by the odd polynomial
\* z (0.9998660 - 0.3302995 z^2 + 0.1801410 z^4 - 0.0851330 z^6
\*    + 0.0208351 z^8), in micro-radians
AtanPoly(z, z2) ==
    (z * (9999 + ((-3303 + ((1801 + ((-851 + (208 * z2) \div Scale) * z2)
                                \div Scale) * z2) \div Scale) * z2)
                    \div Scale)) \div 100

AtanUnit(z) == AtanPoly(z, (z * z) \div Scale)

\* atan(ay / ax) for ax >= 0, ay >= 0, not both zero, in [0, pi/2]
AtanOctant(ay, ax) ==
    IF ay <= ax THEN AtanUnit(MulDiv(ay, Scale, ax))
    ELSE HalfPi - AtanUnit(MulDiv(ax, Scale, ay))

\* the angle a of the first quadrant carried to the quadrant of (x, y)
AtanQuadrant(a, y, x) ==
    IF y >= 0 THEN (IF x >= 0 THEN a ELSE PI - a)
    ELSE -(IF x >= 0 THEN a ELSE PI - a)

\* Math.atan2(y, x), in (-pi, pi]
Atan2(y, x) ==
    IF IsNaN(y) \/ IsNaN(x) THEN NaN
    ELSE IF x = 0 /\ y = 0 THEN 0
    ELSE AtanQuadrant(AtanOctant(Abs(y), Abs(x)), y, x)

(***************************************************************************)
(* THREE.Vector3 as a triple <<x, y, z>>.                                  *)
(***************************************************************************)
Zero3 == <<0, 0, 0>>
NaN3 == <<NaN, NaN, NaN>>
HasNaN(v) == IsNaN(v[1]) \/ IsNaN(v[2]) \/ IsNaN(v[3])

\* Vector3.add, Vector3.sub
VAdd(a, b) == <<FAdd(a[1], b[1]), FAdd(a[2], b[2]), FAdd(a[3], b[3])>>
VSub(a, b) == <<FSub(a[1], b[1]), FSub(a[2], b[2]), FSub(a[3], b[3])>>
\* Vector3.multiplyScalar by a factor in 1/Scale
VScale(v, f) == <<FMul(v[1], f), FMul(v[2], f), FMul(v[3], f)>>
\* Vector3.length
VLength(v) ==
    IF HasNaN(v) THEN NaN
    ELSE ISqrt(v[1] * v[1] + v[2] * v[2] + v[3] * v[3])
\* Vector3.lerpVectors(v1, v2, alpha): v1 + (v2 - v1) * alpha
LerpVectors(v1, v2, alpha) == VAdd(v1, VScale(VSub(v2, v1), alpha))

(***************************************************************************)
(* THREE.Spherical as a record [radius, phi, theta].                       *)
(***************************************************************************)
\* Spherical.setFromVector3 of v whose length() is r: radius = r; a zero
\* vector gives theta = phi = 0; theta = atan2(x, z);
\* phi = acos(clamp(y / radius, -1, 1)), which is the angle
\* atan2(sqrt(x^2 + z^2), y) in [0, pi]
SphericalOf(v, r) ==
    [radius |-> r,
     theta |-> IF r = 0 THEN 0 ELSE Atan2(v[1], v[3]),
     phi |-> IF IsNaN(r) THEN NaN
             ELSE IF r = 0 THEN 0
             ELSE Atan2(ISqrt(v[1] * v[1] + v[3] * v[3]), v[2])]

SetFromVector3(v) == SphericalOf(v, VLength(v))

\* Vector3.setFromSpherical: sinPhiRadius = sin(phi) * radius;
\* x = sinPhiRadius * sin(theta); y = cos(phi) * radius; z = sinPhiRadius * cos(theta)
VectorOf(s, sinPhiRadius) ==
    << FMulR(sinPhiRadius, Sin(s.theta)),
       FMulR(s.radius, Cos(s.phi)),
       FMulR(sinPhiRadius, Cos(s.theta)) >>

SetFromSpherical(s) == VectorOf(s, FMulR(s.radius, Sin(s.phi)))

(***************************************************************************)
(* OrbitControls (src/orbit-controls.js).                                  *)
(*                                                                         *)
(* The controller state is the record `controls`; the camera it moves is   *)
(* the record `camera`.  The handlers below are functions of the pair      *)
(* cc = [controls |-> ..., camera |-> ...] and return the pair they leave. *)
(* camera.up is (0, 1, 0) and is never changed, so the quaternion update() *)
(* builds with setFromUnitVectors(camera.up, (0, 1, 0)) is the identity.   *)
(***************************************************************************)
\* this.state
NONE == -1
ROTATE == 0
DOLLY == 1
PAN == 2

\* domElement.clientHeight, in pixels
ClientHeight == 100
\* the factor 0.01 of multiplyScalar(0.01), as a divisor
PixelDivisor == 100
\* camera.fov / 2 in micro-radians: 37.5 degrees
HalfFov == 654498
\* minDistance = 10, maxDistance = 400 (SolarSystem.setupControls), in 1/10
MinDistance == 100
MaxDistance == 4000
\* dampingFactor = 0.05, in 1/Scale
DampingFactor == 500
\* the epsilon 0.000001 of the phi clamp, in micro-radians
PhiEps == 1
\* Math.pow(0.95, 1), in 1/Scale
ZoomBase == 9500

\* getZoomScale
GetZoomScale == ZoomBase

\* rotateLeft, rotateUp
RotateLeft(c, angle) ==
    [c EXCEPT !.sphericalDelta.theta = FSub(@, angle)]
RotateUp(c, angle) ==
    [c EXCEPT !.sphericalDelta.phi = FSub(@, angle)]

\* dollyIn, dollyOut
DollyIn(c, dollyScale) ==
    [c EXCEPT !.scale = FDiv(@, dollyScale), !.zoomChanged = TRUE]
DollyOut(c, dollyScale) ==
    [c EXCEPT !.scale = FMul(@, dollyScale), !.zoomChanged = TRUE]

\* the conversion without the scaling of the pixel delta
RotateAngleUnscaled(d) == MulDiv(TwoPi, d, ClientHeight)

\* (2 * Math.PI * delta) / clientHeight for delta = d pixels * 0.01
RotateAngle(d) == MulDiv(TwoPi, d, PixelDivisor * ClientHeight)

\* Math.tan(((camera.fov / 2) * Math.PI) / 180), in 1/Scale
TanHalfFov == MulDiv(Sin(HalfFov), Scale, Cos(HalfFov))

\* Vector3.normalize of o whose length() is len: divided by (length() || 1),
\* in 1/Scale
Normalize(o, len) ==
    IF HasNaN(o) THEN NaN3
    ELSE IF len = 0 THEN Zero3
    ELSE << MulDiv(o[1], Scale, len), MulDiv(o[2], Scale, len),
            MulDiv(o[3], Scale, len) >>

\* crossVectors(camera.up, n) with camera.up = (0, 1, 0)
CrossUp(n) == IF HasNaN(n) THEN NaN3 ELSE <<n[3], 0, -n[1]>>

\* the unit vector cross (in 1/Scale) times the length fx
PanLeft(fx, cross) ==
    IF IsNaN(fx) \/ HasNaN(cross) THEN NaN3
    ELSE << MulDiv(fx, cross[1], Scale), 0, MulDiv(fx, cross[3], Scale) >>

\* offset.copy(camera.up).normalize().multiplyScalar(fy)
PanUp(fy) == IF IsNaN(fy) THEN NaN3 ELSE <<0, fy, 0>>

\* panDistance = 2 * targetDistance * Math.tan(...)
PanDistance(targetDistance) ==
    IF IsNaN(targetDistance) THEN NaN
    ELSE FMul(2 * targetDistance, TanHalfFov)

\* (d * 0.01 * panDistance) / clientHeight for the pixel difference d
PanFactor(d, panDistance) ==
    IF IsNaN(panDistance) THEN NaN
    ELSE MulDiv(d, panDistance, PixelDivisor * ClientHeight)

\* the two panOffset.add(offset) of pan, o = position - target of length len
PanAdd(panOffset, o, len, panDistance, dx, dy) ==
    VAdd(VAdd(panOffset,
              PanLeft(PanFactor(-dx, panDistance), CrossUp(Normalize(o, len)))),
         PanUp(PanFactor(dy, panDistance)))

PanFrom(cc, o, len, dx, dy) ==
    [cc EXCEPT
        !.controls.panOffset = PanAdd(@, o, len, PanDistance(len), dx, dy)]

PanBy(cc, o, dx, dy) == PanFrom(cc, o, VLength(o), dx, dy)

\* pan(deltaX, deltaY), deltaX = dx * 0.01 and deltaY = dy * 0.01 for the
\* pixel differences dx, dy
Pan(cc, dx, dy) ==
    PanBy(cc, VSub(cc.camera.position, cc.controls.target), dx, dy)

\* the damping branch of update(): multiply by 1 - dampingFactor
Damp(a) == FMul(a, Scale - DampingFactor)

\* a variant of Settle that damps whether or not damping is enabled
SettleAlwaysDamped(c, a) == Damp(a)

\* the end of update(): with enableDamping a delta is multiplied by
\* 1 - dampingFactor, without it the delta is set to zero
Settle(c, a) == IF c.enableDamping THEN Damp(a) ELSE 0

\* a variant of ResetScale that keeps the accumulated factor
KeepScale(scale) == scale

\* this.scale = 1, the last statement of update()
ResetScale(scale) == Scale

\* getAutoRotationAngle: ((2 * Math.PI) / 60 / 60) * autoRotateSpeed, with
\* autoRotateSpeed = 0.5 (SolarSystem.setupControls)
GetAutoRotationAngle == Quot(Quot(Quot(TwoPi, 60), 60), 2)

\* update(), lines 294 to 304: the spherical coordinates s0 of the offset
\* moved by the deltas and the scale, then clamped
UpdateSpherical(c, s0) ==
    [radius |-> MathMax(MinDistance,
                        MathMin(MaxDistance, FMul(s0.radius, c.scale))),
     theta |-> FAdd(s0.theta, c.sphericalDelta.theta),
     phi |-> MathMax(PhiEps,
                     MathMin(PI - PhiEps, FAdd(s0.phi, c.sphericalDelta.phi)))]

\* update(), lines 305 to 321: what it writes, given the new spherical
\* coordinates and the new target
UpdateWrite(cc, c, spherical, target) ==
    [controls |->
        [c EXCEPT
            !.spherical = spherical,
            !.target = target,
            !.sphericalDelta =
                [theta |-> Settle(c, c.sphericalDelta.theta),
                 phi |-> Settle(c, c.sphericalDelta.phi)],
            !.panOffset =
                << Settle(c, c.panOffset[1]), Settle(c, c.panOffset[2]),
                   Settle(c, c.panOffset[3]) >>,
            !.scale = ResetScale(c.scale)],
     camera |->
        [cc.camera EXCEPT
            !.position = VAdd(target, SetFromSpherical(spherical))]]

\* update() on the controller c (after the auto-rotation step)
UpdateFrom(cc, c) ==
    UpdateWrite(cc, c,
                UpdateSpherical(c, SetFromVector3(VSub(cc.camera.position,
                                                       c.target))),
                VAdd(c.target, c.panOffset))

\* update()
Update(cc) ==
    UpdateFrom(cc, IF cc.controls.autoRotate /\ cc.controls.currentState = NONE
                   THEN RotateLeft(cc.controls, GetAutoRotationAngle)
                   ELSE cc.controls)

(***************************************************************************)
(* Math.pow(r, 0.1) for a ratio r in 1/Scale: the largest y with           *)
(* y^10 <= r, by bisection (ratios up to 1.5^10, about 57).                *)
(***************************************************************************)
Square(y) == MulDiv(y, y, Scale)
PowFive(y, y4) == MulDiv(y4, y, Scale)
PowTen(y) == Square(PowFive(y, Square(Square(y))))

RECURSIVE RootBetween(_, _, _)
RootBetween(r, lo, hi) ==
    IF lo >= hi THEN lo
    ELSE LET mid == (lo + hi + 1) \div 2
         IN  IF PowTen(mid) <= r THEN RootBetween(r, mid, hi)
             ELSE RootBetween(r, lo, mid - 1)

PowTenth(r) ==
    IF IsNaN(r) THEN NaN
    ELSE IF r = Inf THEN Inf
    ELSE IF r = 0 THEN 0
    ELSE RootBetween(r, 0, 15000)

\* a / b for two pixel lengths a >= 0, b >= 0, in 1/Scale
Ratio(a, b) ==
    IF b = 0 THEN (IF a = 0 THEN NaN ELSE Inf) ELSE MulDiv(a, Scale, b)

\* Math.sqrt(dx * dx + dy * dy) between two touch points
TouchDistance(touches) ==
    LET dx == touches[1][1] - touches[2][1]
        dy == touches[1][2] - touches[2][2]
    IN  ISqrt(dx * dx + dy * dy)

(***************************************************************************)
(* Listener registrations.  A registration is <<type, function>>, and       *)
(* removeEventListener removes the registration of the same function        *)
(* object only.  A function is [method, bound]: bound is TRUE for the new   *)
(* function object a .bind(this) or an arrow function creates where it is   *)
(* written, FALSE for the method as this.<method> finds it on the           *)
(* prototype.  The constructor replaces this.onMouseMove and this.onMouseUp *)
(* by bound copies, so for these two the document listeners are added and   *)
(* removed with the same object (controls.documentListeners).               *)
(***************************************************************************)
\* domElement.addEventListener(type, this.<method>.bind(this))
SetupEventListeners ==
    { <<"contextmenu", [method |-> "onContextMenu", bound |-> TRUE]>>,
      <<"mousedown", [method |-> "onMouseDown", bound |-> TRUE]>>,
      <<"wheel", [method |-> "onMouseWheel", bound |-> TRUE]>>,
      <<"touchstart", [method |-> "onTouchStart", bound |-> TRUE]>>,
      <<"touchend", [method |-> "onTouchEnd", bound |-> TRUE]>>,
      <<"touchmove", [method |-> "onTouchMove", bound |-> TRUE]>> }

\* dispose(): domElement.removeEventListener(type, this.<method>) and the two
\* document listeners
Dispose(c) ==
    [c EXCEPT
        !.domListeners =
            @ \ { <<"contextmenu", [method |-> "onContextMenu", bound |-> FALSE]>>,
                  <<"mousedown", [method |-> "onMouseDown", bound |-> FALSE]>>,
                  <<"wheel", [method |-> "onMouseWheel", bound |-> FALSE]>>,
                  <<"touchstart", [method |-> "onTouchStart", bound |-> FALSE]>>,
                  <<"touchend", [method |-> "onTouchEnd", bound |-> FALSE]>>,
                  <<"touchmove", [method |-> "onTouchMove", bound |-> FALSE]>> },
        !.documentListeners = FALSE]

(***************************************************************************)
(* Event handlers of OrbitControls.                                        *)
(***************************************************************************)
\* onMouseDown(event): event.button, event.clientX, event.clientY
\* a variant of onMouseDown that ignores the button while another
\* interaction is in progress
OnMouseDownWhenIdle(cc, button, x, y) ==
    IF cc.controls.currentState # NONE \/ ~cc.controls.enabled
        \/ button \notin {0, 1, 2}
    THEN cc
    ELSE [cc EXCEPT
            !.controls.currentState = button,
            !.controls.documentListeners = TRUE,
            !.controls.rotateStart = IF button = 0 THEN <<x, y>> ELSE @,
            !.controls.dollyStart = IF button = 1 THEN <<x, y>> ELSE @,
            !.controls.panStart = IF button = 2 THEN <<x, y>> ELSE @]

OnMouseDown(cc, button, x, y) ==
    LET c == cc.controls
        c1 == CASE button = 0 ->
                     [c EXCEPT !.currentState = ROTATE, !.rotateStart = <<x, y>>]
                [] button = 1 ->
                     [c EXCEPT !.currentState = DOLLY, !.dollyStart = <<x, y>>]
                [] button = 2 ->
                     [c EXCEPT !.currentState = PAN, !.panStart = <<x, y>>]
                [] OTHER -> c
        c2 == IF c1.currentState # NONE
              THEN [c1 EXCEPT !.documentListeners = TRUE]
              ELSE c1
    IN  IF ~c.enabled THEN cc ELSE [cc EXCEPT !.controls = c2]

\* onMouseMove(event): event.clientX, event.clientY
OnMouseMove(cc, x, y) ==
    LET c == cc.controls
    IN  IF ~c.enabled THEN cc
        ELSE Update(
            CASE c.currentState = ROTATE ->
                   [cc EXCEPT
                      !.controls =
                         [RotateUp(RotateLeft(c, RotateAngle(x - c.rotateStart[1])),
                                   RotateAngle(y - c.rotateStart[2]))
                          EXCEPT !.rotateStart = <<x, y>>]]
              [] c.currentState = DOLLY ->
                   [cc EXCEPT
                      !.controls =
                         [(IF y - c.dollyStart[2] > 0
                           THEN DollyIn(c, GetZoomScale)
                           ELSE IF y - c.dollyStart[2] < 0
                           THEN DollyOut(c, GetZoomScale)
                           ELSE c)
                          EXCEPT !.dollyStart = <<x, y>>]]
              [] c.currentState = PAN ->
                   [Pan(cc, x - c.panStart[1], y - c.panStart[2])
                    EXCEPT !.controls.panStart = <<x, y>>]
              [] OTHER -> cc)

\* onMouseUp()
OnMouseUp(cc) ==
    IF ~cc.controls.enabled THEN cc
    ELSE [cc EXCEPT !.controls.documentListeners = FALSE,
                    !.controls.currentState = NONE]

\* onMouseWheel(event): event.deltaY
\* a variant of onMouseWheel that zooms by one factor per 100 of deltaY
OnMouseWheelByDelta(cc, deltaY) ==
    IF ~cc.controls.enabled THEN cc
    ELSE Update([cc EXCEPT
                    !.controls =
                        IF deltaY <= -300
                        THEN DollyOut(cc.controls,
                                      MulDiv(MulDiv(ZoomBase, ZoomBase, Scale),
                                             ZoomBase, Scale))
                        ELSE IF deltaY < 0
                        THEN DollyOut(cc.controls, ZoomBase)
                        ELSE IF deltaY >= 300
                        THEN DollyIn(cc.controls,
                                     MulDiv(MulDiv(ZoomBase, ZoomBase, Scale),
                                            ZoomBase, Scale))
                        ELSE IF deltaY > 0
                        THEN DollyIn(cc.controls, ZoomBase)
                        ELSE cc.controls])

OnMouseWheel(cc, deltaY) ==
    LET c == cc.controls
    IN  IF ~c.enabled THEN cc
        ELSE Update([cc EXCEPT
                        !.controls =
                            IF deltaY < 0 THEN DollyOut(c, GetZoomScale)
                            ELSE IF deltaY > 0 THEN DollyIn(c, GetZoomScale)
                            ELSE c])

\* onTouchStart(event): event.touches, a sequence of <<pageX, pageY>>
\* onContextMenu: preventDefault only
OnContextMenu(cc) == cc

\* a variant of onTouchStart without the check of this.enabled
OnTouchStartAlways(cc, touches) ==
    CASE Len(touches) = 1 ->
           [cc EXCEPT !.controls.currentState = ROTATE,
                      !.controls.rotateStart = touches[1]]
      [] Len(touches) = 2 ->
           [cc EXCEPT !.controls.currentState = DOLLY,
                      !.controls.dollyStart = <<0, TouchDistance(touches)>>]
      [] OTHER -> cc

OnTouchStart(cc, touches) ==
    LET c == cc.controls
        c1 == CASE Len(touches) = 1 ->
                     [c EXCEPT !.currentState = ROTATE,
                               !.rotateStart = touches[1]]
                [] Len(touches) = 2 ->
                     [c EXCEPT !.currentState = DOLLY,
                               !.dollyStart = <<0, TouchDistance(touches)>>]
                [] OTHER -> c
    IN  IF ~c.enabled THEN cc ELSE [cc EXCEPT !.controls = c1]

\* onTouchMove, case 2, for two touches distance apart
Pinch(c, distance) ==
    [DollyIn(c, PowTenth(Ratio(distance, c.dollyStart[2])))
     EXCEPT !.dollyStart = <<0, distance>>]

\* onTouchMove(event): event.touches
OnTouchMove(cc, touches) ==
    LET c == cc.controls
        c1 == CASE Len(touches) = 1 ->
                     LET dx == touches[1][1] - c.rotateStart[1]
                         dy == touches[1][2] - c.rotateStart[2]
                         r == RotateUp(RotateLeft(c, RotateAngle(dx)),
                                       RotateAngle(dy))
                     IN  [r EXCEPT !.rotateStart = touches[1]]
                [] Len(touches) = 2 ->
                     Pinch(c, TouchDistance(touches))
                [] OTHER -> c
    IN  IF ~c.enabled THEN cc ELSE [cc EXCEPT !.controls = c1]

\* onTouchEnd()
OnTouchEnd(cc) ==
    IF ~cc.controls.enabled THEN cc
    ELSE [cc EXCEPT !.controls.currentState = NONE]

(***************************************************************************)
(* SolarSystem (the main module): the static table of bodies.              *)
(***************************************************************************)
PlanetKeys ==
    {"mercury", "venus", "earth", "mars", "jupiter", "saturn", "uranus",
     "neptune"}

\* this.planetData: radius and distance in 1/10, orbitalSpeed and
\* rotationSpeed in 1/1000 rad per call
planetData ==
    [k \in PlanetKeys |->
        CASE k = "mercury" ->
               [radius |-> 12, distance |-> 120, orbitalSpeed |-> 20,
                rotationSpeed |-> 5]
          [] k = "venus" ->
               [radius |-> 18, distance |-> 180, orbitalSpeed |-> 15,
                rotationSpeed |-> 2]
          [] k = "earth" ->
               [radius |-> 20, distance |-> 240, orbitalSpeed |-> 10,
                rotationSpeed |-> 20]
          [] k = "mars" ->
               [radius |-> 15, distance |-> 300, orbitalSpeed |-> 8,
                rotationSpeed |-> 18]
          [] k = "jupiter" ->
               [radius |-> 55, distance |-> 400, orbitalSpeed |-> 5,
                rotationSpeed |-> 40]
          [] k = "saturn" ->
               [radius |-> 48, distance |-> 520, orbitalSpeed |-> 3,
                rotationSpeed |-> 35]
          [] k = "uranus" ->
               [radius |-> 32, distance |-> 640, orbitalSpeed |-> 2,
                rotationSpeed |-> 25]
          [] k = "neptune" ->
               [radius |-> 30, distance |-> 760, orbitalSpeed |-> 1,
                rotationSpeed |-> 22]]

\* Orbital angles are in 1e-5 rad: a rate in 1/1000 times two multipliers in
\* 1/10 each.  A multiplier of 1.0 is SpeedOne.
SpeedOne == 10
\* 0.005 (Sun), 0.05 and 0.02 (moon), 0.0001 (star field) in 1/1000 rad or,
\* for the star field, 1e-5 rad
SunRotationRate == 5
MoonSpeed == 50
MoonRotationRate == 20
StarFieldRate == 10

\* a variant of SpeedMultiplier that leaves out the planet's own multiplier
SpeedMultiplierGlobalOnly(g, planet) == g * SpeedOne

\* speedMultiplier = this.globalSpeedMultiplier * planet.individualSpeed
\* a variant that reads the planet's slider as an offset from 1x
SpeedMultiplierRelative(g, planet) == g * (planet.individualSpeed - SpeedOne)

SpeedMultiplier(g, planet) == g * planet.individualSpeed

\* a variant of Spin that reads the orbital angle of the line above
SpinFromAngle(planet, increment) == planet.angle + increment

\* planet.mesh.rotation.y += data.rotationSpeed * speedMultiplier
Spin(planet, increment) == planet.meshRotation + increment

\* a variant of updatePlanets whose increments are scaled by deltaTime,
\* in seconds
UpdatePlanetsTimed(b, g, deltaTime) ==
    [sun |-> b.sun + (SunRotationRate * g * SpeedOne * deltaTime) \div 1000,
     planets |->
        [k \in PlanetKeys |->
            [b.planets[k] EXCEPT
                !.angle =
                    @ + (planetData[k].orbitalSpeed
                            * SpeedMultiplier(g, b.planets[k]) * deltaTime)
                                \div 1000,
                !.orbitGroupRotation =
                    b.planets[k].angle
                        + (planetData[k].orbitalSpeed
                            * SpeedMultiplier(g, b.planets[k]) * deltaTime)
                                \div 1000,
                !.meshRotation =
                    @ + (planetData[k].rotationSpeed
                            * SpeedMultiplier(g, b.planets[k]) * deltaTime)
                                \div 1000]],
     moons |->
        [earth |->
            [angle |-> b.moons.earth.angle
                        + (MoonSpeed * g * SpeedOne * deltaTime) \div 1000,
             rotation |-> b.moons.earth.rotation
                        + (MoonRotationRate * g * SpeedOne * deltaTime)
                                \div 1000]]]

\* updatePlanets(deltaTime) on b = [sun, planets, moons] with
\* g = this.globalSpeedMultiplier; deltaTime, in milliseconds here, is
\* received and not read
UpdatePlanets(b, g, deltaTime) ==
    [sun |-> b.sun + SunRotationRate * g * SpeedOne,
     planets |->
        [k \in PlanetKeys |->
            LET planet == b.planets[k]
                data == planetData[k]
                speedMultiplier == SpeedMultiplier(g, planet)
                angle == planet.angle + data.orbitalSpeed * speedMultiplier
            IN  [planet EXCEPT
                    !.angle = angle,
                    !.orbitGroupRotation = angle,
                    !.meshRotation =
                        Spin(planet, data.rotationSpeed * speedMultiplier)]],
     moons |->
        [earth |->
            [angle |-> b.moons.earth.angle + MoonSpeed * g * SpeedOne,
             rotation |-> b.moons.earth.rotation + MoonRotationRate * g * SpeedOne]]]

\* planet.mesh.getWorldPosition: the mesh sits at x = distance inside the
\* orbit group, which is turned about the y axis by orbitGroup.rotation.y
WorldPosition(planet, data) ==
    << MulDiv(data.distance, Cos(planet.orbitGroupRotation * 10), Scale), 0,
       -MulDiv(data.distance, Sin(planet.orbitGroupRotation * 10), Scale) >>

(***************************************************************************)
(* focusOnObject and its per-frame callback animateCamera.                 *)
(***************************************************************************)
\* const duration = 2000
Duration == 2000
\* distance = 15 for the Sun, planet radius * 8 for a planet
SunFocusDistance == 150
FocusRadiusFactor == 8

\* progress = Math.min(elapsed / duration, 1), in 1/Scale
Progress(elapsed) == MathMin(MulDiv(elapsed, Scale, Duration), Scale)

\* eased = 1 - Math.pow(1 - progress, 3)
Eased(progress) ==
    LET q == Scale - progress
    IN  Scale - MulDiv(MulDiv(q, q, Scale), q, Scale)

\* a variant of Rearm that schedules the callback after every step
RearmAlways(progress) == TRUE

\* if (progress < 1) requestAnimationFrame(animateCamera)
Rearm(progress) == progress < Scale

\* the closure for a planet whose world position is targetPosition
PlanetTransition(objectName, targetPosition, distance, position) ==
    [name |-> objectName,
     targetPosition |-> targetPosition,
     startPosition |-> position,
     endPosition |->
        VAdd(targetPosition, <<distance, distance \div 2, distance>>),
     elapsed |-> 0]

\* a variant of NewTransition that takes every name that is no planet for
\* the Sun
NewTransitionDefault(objectName, b, position) ==
    IF objectName \in PlanetKeys
    THEN << PlanetTransition(
                objectName,
                WorldPosition(b.planets[objectName], planetData[objectName]),
                planetData[objectName].radius * FocusRadiusFactor,
                position) >>
    ELSE << [name |-> "sun",
             targetPosition |-> Zero3,
             startPosition |-> position,
             endPosition |->
                <<SunFocusDistance, SunFocusDistance \div 2, SunFocusDistance>>,
             elapsed |-> 0] >>

\* The closure focusOnObject builds, or <<>> when objectName is neither
\* "sun" nor a key of this.planets.
NewTransition(objectName, b, position) ==
    IF objectName = "sun"
    THEN << [name |-> objectName,
             targetPosition |-> Zero3,
             startPosition |-> position,
             endPosition |->
                <<SunFocusDistance, SunFocusDistance \div 2, SunFocusDistance>>,
             elapsed |-> 0] >>
    ELSE IF objectName \in PlanetKeys
    THEN << PlanetTransition(
                objectName,
                WorldPosition(b.planets[objectName], planetData[objectName]),
                planetData[objectName].radius * FocusRadiusFactor,
                position) >>
    ELSE << >>

(***************************************************************************)
(* State.                                                                  *)
(***************************************************************************)
VARIABLES
    camera,                 \* this.camera: [position]
    controls,               \* this.controls: the OrbitControls instance
    bodies,                 \* [sun, planets, moons]: angles and multipliers
    starField,              \* this.starField.rotation.y
    isPaused,               \* this.isPaused
    globalSpeedMultiplier,  \* this.globalSpeedMultiplier, in 1/10
    animationId,            \* "none", "pending": animate() is scheduled, or
                            \* "cancelled": cancelAnimationFrame removed it
    transitions,            \* the scheduled animateCamera closures, in the
                            \* order requestAnimationFrame will run them
    budget,                 \* events explored so far
    hist,                   \* what the last step did (history, not program state)
    epoch,                  \* history: the bodies when a speed multiplier was
                            \* last set and the updatePlanets calls since; the
                            \* bodies when the pause flag was last toggled and
                            \* the frames since; whether destroy() and
                            \* dispose() have been called
    listeners,              \* the listeners SolarSystem has registered:
                            \* triples <<target, type, function>>
    basic,                  \* the fields setupBasicControls adds when
                            \* OrbitControls is missing: [installed,
                            \* isMouseDown, mouseX, mouseY, cameraDistance,
                            \* cameraAngleX, cameraAngleY]
    twin                    \* a second run of createPlanet and updatePlanets
                            \* that receives the same frames and slider
                            \* values: [bodies, created, mine], its bodies,
                            \* its bodies at creation and this run's at
                            \* creation; late, the bodies of a run created
                            \* like this one whose clock reports other
                            \* deltaTime values

vars ==
    << camera, controls, bodies, starField, isPaused, globalSpeedMultiplier,
       animationId, transitions, budget, hist, epoch, listeners, basic,
       twin >>

(***************************************************************************)
(* Inputs.                                                                 *)
(***************************************************************************)
\* pointer and touch positions, in pixels
Points == { <<0, 0>>, <<1500, 2000>> }
\* where a mouse button goes down
DownPoints == { <<0, 0>> }
\* event.button
Buttons == {0, 1, 2, 3}
\* event.deltaY
WheelDeltas == {-100, 0, 100, 300}
\* event.touches: one finger, two fingers at one point, two fingers apart,
\* three fingers
TouchLists ==
    { << <<1500, 2000>> >>,
      << <<0, 0>>, <<0, 0>> >>, << <<0, 0>>, <<1500, 2000>> >>,
      << <<0, 0>>, <<1500, 2000>>, <<3000, 4000>> >> }
\* milliseconds between two frames, as Date.now() sees them
FrameTimes == {1000, 2000}
\* the frame times that differ in effect: only animateCamera reads the clock
FrameTimesNow(ts) == IF Len(ts) > 0 THEN FrameTimes ELSE {2000}
\* e.target.value of the speed sliders' input events, in 1/10: values inside
\* the sliders' ranges (0 to 5 and 0 to 3) and one above each
GlobalSpeeds == {0, 20, 60}
PlanetSpeeds == {0, 30, 40}
SliderPlanets == {"earth"}
\* names given to focusOnObject: the Sun, a planet, a name that is no key of
\* this.planets, and a name this.planets inherits from Object.prototype (for
\* which planet.mesh is undefined and getWorldPosition throws before
\* anything is written)
FocusNames == {"sun", "earth", "pluto", "constructor"}
\* Math.random() sequences of createPlanet
Seeds == {1, 2}

PlanetIndex(k) ==
    CASE k = "mercury" -> 1 [] k = "venus" -> 2 [] k = "earth" -> 3
      [] k = "mars" -> 4 [] k = "jupiter" -> 5 [] k = "saturn" -> 6
      [] k = "uranus" -> 7 [] k = "neptune" -> 8

\* Math.random() * Math.PI * 2 in [0, 2 pi), in 1e-5 rad
RandomAngle(seed, k) == (seed * PlanetIndex(k) * 104729) % 628318

(***************************************************************************)
(* One run of calls inside a step: the pair cc, the transitions it re-arms *)
(* and the history it leaves.                                              *)
(***************************************************************************)
NoHist(op) ==
    [op |-> op, updates |-> 0, panWrote |-> FALSE, finished |-> << >>]

Run(cc) ==
    [cc |-> cc, updates |-> 0, panWrote |-> FALSE, finished |-> << >>,
     pending |-> << >>]

\* this.controls.update(), called while a focus transition is or is not
\* active; panWrote records that its target.add(panOffset) moved the target
\* while one was
AfterUpdate(r, after, focusActive) ==
    [r EXCEPT
        !.cc = after,
        !.updates = @ + 1,
        !.panWrote =
            @ \/ (focusActive /\ after.controls.target # r.cc.controls.target)]

CallUpdate(r, focusActive) == AfterUpdate(r, Update(r.cc), focusActive)

\* the two lerps of animateCamera
\* a variant of the interpolation that puts the target on the destination
\* at once
LerpCameraSnap(r, t, eased) ==
    [r EXCEPT
        !.cc.camera.position =
            LerpVectors(t.startPosition, t.endPosition, eased),
        !.cc.controls.target = t.targetPosition]

LerpCamera(r, t, eased) ==
    [r EXCEPT
        !.cc.camera.position =
            LerpVectors(t.startPosition, t.endPosition, eased),
        !.cc.controls.target = LerpVectors(@, t.targetPosition, eased)]

\* the end of animateCamera, r1 the run after its controls.update()
AnimateCameraEnd(r1, t, b, progress) ==
    IF Rearm(progress)
    THEN [r1 EXCEPT !.pending = Append(@, t)]
    ELSE [r1 EXCEPT
            !.finished =
                Append(@, [name |-> t.name,
                           endPosition |-> t.endPosition,
                           position |-> r1.cc.camera.position,
                           target |-> r1.cc.controls.target,
                           world |->
                              IF t.name \in PlanetKeys
                              THEN WorldPosition(b.planets[t.name],
                                                 planetData[t.name])
                              ELSE Zero3])]

\* a variant of animateCamera that leaves update() to the main loop
AnimateCameraAtNoUpdate(r, t, b, progress) ==
    AnimateCameraEnd(LerpCamera(r, t, Eased(progress)), t, b, progress)

AnimateCameraAt(r, t, b, progress) ==
    AnimateCameraEnd(CallUpdate(LerpCamera(r, t, Eased(progress)), TRUE),
                     t, b, progress)

\* animateCamera() of the closure t, whose elapsed time is t.elapsed
AnimateCamera(r, t, b) == AnimateCameraAt(r, t, b, Progress(t.elapsed))

\* the frame's animateCamera callbacks, in the order they were scheduled
RunCallbacks(r, ts, b) ==
    LET after[i \in 0..Len(ts)] ==
            IF i = 0 THEN r ELSE AnimateCamera(after[i - 1], ts[i], b)
    IN  after[Len(ts)]

\* a variant of Animate that does not read the pause flag
AnimateWhilePaused(b, g, paused, deltaTime) ==
    UpdatePlanets(b, g, deltaTime)

\* the motion part of animate(): skipped while paused
Animate(b, g, paused, deltaTime) ==
    IF paused THEN b ELSE UpdatePlanets(b, g, deltaTime)

\* clock.getDelta() of a run whose frames come at other times
OtherDeltaTime(dt) == 3000 - dt

HistOf(r, op) ==
    [op |-> op, updates |-> r.updates, panWrote |-> r.panWrote,
     finished |-> r.finished]

CC == [controls |-> controls, camera |-> camera]

\* SolarSystem.setupEventListeners and setupUI: every listener is an arrow
\* function written at the addEventListener call
SystemListeners ==
    { <<"window", "resize", [method |-> "arrow", bound |-> TRUE]>>,
      <<"pause-resume", "click", [method |-> "arrow", bound |-> TRUE]>>,
      <<"global-speed", "input", [method |-> "arrow", bound |-> TRUE]>>,
      <<"speed-slider", "input", [method |-> "arrow", bound |-> TRUE]>>,
      <<"camera-btn", "click", [method |-> "arrow", bound |-> TRUE]>> }

\* the sun, the planets createPlanet stores (angle: Math.random() * Math.PI
\* * 2, individualSpeed: 1.0) and the moon addEarthMoon stores
CreateBodies(seed) ==
    [sun |-> 0,
     planets |->
        [k \in PlanetKeys |->
            [angle |-> RandomAngle(seed, k),
             orbitGroupRotation |-> 0,
             meshRotation |-> 0,
             individualSpeed |-> SpeedOne]],
     moons |-> [earth |-> [angle |-> 0, rotation |-> 0]]]

(***************************************************************************)
(* Init: the state init() has built when it calls animate() for the first  *)
(* time.  enableDamping is false in the OrbitControls constructor and true  *)
(* after SolarSystem.setupControls; both values are explored, with the      *)
(* distances setupControls sets.                                            *)
(***************************************************************************)
(***************************************************************************)
(* The fallback controller of setupBasicControls. bc is [basic, camera];   *)
(* angles in micro-radians, cameraDistance in 1/10, pointer in pixels.     *)
(***************************************************************************)
\* this.cameraDistance = 120, and the limits 20 and 400 of the wheel handler
BasicDistance == 1200
BasicMinDistance == 200
BasicMaxDistance == 4000

\* updateCameraPosition
UpdateCameraPosition(bc) ==
    [bc EXCEPT
        !.camera.position =
            << FMul(FMul(bc.basic.cameraDistance, Cos(bc.basic.cameraAngleX)),
                    Sin(bc.basic.cameraAngleY)),
               FMul(bc.basic.cameraDistance, Sin(bc.basic.cameraAngleX)),
               FMul(FMul(bc.basic.cameraDistance, Cos(bc.basic.cameraAngleX)),
                    Cos(bc.basic.cameraAngleY)) >>]

\* a variant of the drag without the limit of the vertical rotation
BasicDragUnlimited(bc, x, y) ==
    [UpdateCameraPosition(
        [bc EXCEPT
            !.basic.cameraAngleY = @ + (x - bc.basic.mouseX) * 10000,
            !.basic.cameraAngleX = @ + (y - bc.basic.mouseY) * 10000])
     EXCEPT !.basic.mouseX = x, !.basic.mouseY = y]

\* the drag of a move to (x, y): 0.01 rad per pixel, cameraAngleX kept in
\* [-pi/2, pi/2], then updateCameraPosition and the new last point
BasicDrag(bc, x, y) ==
    [UpdateCameraPosition(
        [bc EXCEPT
            !.basic.cameraAngleY = @ + (x - bc.basic.mouseX) * 10000,
            !.basic.cameraAngleX =
                MathMax(-HalfPi,
                        MathMin(HalfPi, @ + (y - bc.basic.mouseY) * 10000))])
     EXCEPT !.basic.mouseX = x, !.basic.mouseY = y]

\* the mousedown, mouseup and mousemove listeners
OnBasicMouseDown(bc, x, y) ==
    [bc EXCEPT !.basic.isMouseDown = TRUE,
               !.basic.mouseX = x, !.basic.mouseY = y]
OnBasicMouseUp(bc) == [bc EXCEPT !.basic.isMouseDown = FALSE]
OnBasicMouseMove(bc, x, y) ==
    IF ~bc.basic.isMouseDown THEN bc ELSE BasicDrag(bc, x, y)

\* the wheel listener
OnBasicWheel(bc, deltaY) ==
    UpdateCameraPosition(
        [bc EXCEPT
            !.basic.cameraDistance =
                MathMax(BasicMinDistance,
                        MathMin(BasicMaxDistance, @ + deltaY * 2))])

\* the touchstart, touchend and touchmove listeners
OnBasicTouchStart(bc, touches) ==
    IF Len(touches) = 1
    THEN [bc EXCEPT !.basic.isMouseDown = TRUE,
                    !.basic.mouseX = touches[1][1],
                    !.basic.mouseY = touches[1][2]]
    ELSE bc
OnBasicTouchEnd(bc) == [bc EXCEPT !.basic.isMouseDown = FALSE]
OnBasicTouchMove(bc, touches) ==
    IF ~bc.basic.isMouseDown \/ Len(touches) # 1 THEN bc
    ELSE BasicDrag(bc, touches[1][1], touches[1][2])

\* the part of init that does not depend on the controller in use
InitSystem ==
    /\ \E seed \in Seeds : bodies = CreateBodies(seed)
    /\ starField = 0
    /\ isPaused = FALSE
    /\ globalSpeedMultiplier = SpeedOne
    /\ animationId = "none"
    /\ transitions = << >>
    /\ budget = [inputs |-> 0, frames |-> 0, focus |-> 0]
    /\ hist = NoHist("init")
    /\ epoch = [calls |-> 0, start |-> bodies, ticks |-> 0, toggledAt |-> bodies,
                destroyed |-> FALSE, disposed |-> FALSE]
    /\ listeners = SystemListeners

InitProgram ==
    /\ camera = [position |-> <<0, 500, 1200>>]
    /\ basic = [installed |-> FALSE]
    /\ \E damping \in BOOLEAN :
          controls =
            [enabled |-> TRUE,
             target |-> Zero3,
             enableDamping |-> damping,
             autoRotate |-> FALSE,
             currentState |-> NONE,
             spherical |-> SetFromVector3(<<0, 500, 1200>>),
             sphericalDelta |-> [theta |-> 0, phi |-> 0],
             panOffset |-> Zero3,
             zoomChanged |-> FALSE,
             rotateStart |-> <<0, 0>>,
             panStart |-> <<0, 0>>,
             dollyStart |-> <<0, 0>>,
             scale |-> Scale,
             domListeners |-> SetupEventListeners,
             documentListeners |-> FALSE]
    /\ InitSystem

\* init when OrbitControls is missing: setupControls falls back to
\* setupBasicControls and this.controls is a mock with a no-op update()
InitBasic ==
    /\ camera = [position |-> <<0, 500, 1200>>]
    /\ controls = [target |-> Zero3]
    /\ basic = [installed |-> TRUE, isMouseDown |-> FALSE,
                mouseX |-> 0, mouseY |-> 0,
                cameraDistance |-> BasicDistance,
                cameraAngleX |-> 0, cameraAngleY |-> 0]
    /\ InitSystem
    /\ twin = [bodies |-> bodies, created |-> bodies, mine |-> bodies,
               late |-> bodies]

\* the second run is a copy of this one
Init ==
    /\ InitProgram
    /\ twin = [bodies |-> bodies, created |-> bodies, mine |-> bodies,
               late |-> bodies]

\* the second run is independent: it draws its own Math.random() sequence
InitTwin ==
    /\ InitProgram
    /\ \E seed \in Seeds :
          twin = [bodies |-> CreateBodies(seed), created |-> CreateBodies(seed),
                  mine |-> bodies, late |-> bodies]

(***************************************************************************)
(* Steps.                                                                  *)
(***************************************************************************)
Started == animationId # "none"
InputAllowed == Started /\ budget.inputs < MaxInputs
SpendInput == budget' = [budget EXCEPT !.inputs = @ + 1]

\* a handler of the controller that leaves the pair r.cc
ControlsStep(r, op) ==
    /\ camera' = r.cc.camera
    /\ controls' = r.cc.controls
    /\ hist' = HistOf(r, op)
    /\ UNCHANGED << bodies, starField, isPaused, globalSpeedMultiplier,
                    animationId, transitions, epoch, listeners, twin >>
    /\ UNCHANGED basic

FocusActive == Len(transitions) > 0

\* the controller has a listener of this type on the canvas
Listens(type) == \E l \in controls.domListeners : l[1] = type
\* SolarSystem has a listener of this type on this element
SystemListens(target, type) ==
    \E l \in listeners : l[1] = target /\ l[2] = type
\* the requestAnimationFrame(() => this.animate()) callback is not cancelled
LoopRuns == animationId # "cancelled"

\* animate(): one frame of the main loop followed by the frame's
\* animateCamera callbacks, dt milliseconds after the previous frame
\* a variant of animate() that requests the next frame only while the
\* animation is not paused
RequestAnimateUnlessPaused(paused) == IF paused THEN "none" ELSE "pending"

\* this.animationId = requestAnimationFrame(() => this.animate()), the
\* first statement of animate()
RequestAnimate(paused) == "pending"

Frame(dt) ==
    /\ budget.frames < MaxFrames
    /\ bodies' = IF LoopRuns
                  THEN Animate(bodies, globalSpeedMultiplier, isPaused, dt)
                  ELSE bodies
    /\ starField' = IF LoopRuns /\ ~isPaused THEN starField + StarFieldRate
                     ELSE starField
    /\ \E r2 \in { RunCallbacks(
                      IF LoopRuns THEN CallUpdate(Run(CC), FocusActive)
                      ELSE Run(CC),
                      [i \in 1..Len(transitions) |->
                          [transitions[i] EXCEPT !.elapsed = @ + dt]],
                      bodies') } :
          /\ camera' = r2.cc.camera
          /\ controls' = r2.cc.controls
          /\ transitions' = r2.pending
          /\ hist' = HistOf(r2, IF LoopRuns THEN "animate" ELSE "callbacks")
    /\ animationId' = IF LoopRuns THEN RequestAnimate(isPaused)
                       ELSE animationId
    /\ budget' = [budget EXCEPT !.frames = @ + 1]
    /\ epoch' = IF ~LoopRuns THEN epoch
                 ELSE IF isPaused THEN [epoch EXCEPT !.ticks = @ + 1]
                 ELSE [epoch EXCEPT !.calls = @ + 1, !.ticks = @ + 1]
    /\ twin' = IF LoopRuns
                THEN [twin EXCEPT
                        !.bodies =
                            Animate(@, globalSpeedMultiplier, isPaused, dt),
                        !.late =
                            Animate(@, globalSpeedMultiplier, isPaused,
                                    OtherDeltaTime(dt))]
                ELSE twin
    /\ UNCHANGED << isPaused, globalSpeedMultiplier, listeners >>
    /\ UNCHANGED basic

MouseDown(button, p) ==
    /\ InputAllowed /\ SpendInput
    /\ Listens("mousedown")
    /\ ControlsStep(Run(OnMouseDown(CC, button, p[1], p[2])), "mousedown")

\* the document listeners exist between a mousedown and the next mouseup
MouseMove(p) ==
    /\ InputAllowed /\ SpendInput
    /\ controls.documentListeners
    /\ \E r \in { Run(OnMouseMove(CC, p[1], p[2])) } :
           ControlsStep(
             [r EXCEPT
                !.updates = IF controls.enabled THEN 1 ELSE 0,
                !.panWrote =
                    FocusActive /\ r.cc.controls.target # controls.target],
             "mousemove")

MouseUp ==
    /\ InputAllowed /\ SpendInput
    /\ controls.documentListeners
    /\ ControlsStep(Run(OnMouseUp(CC)), "mouseup")

MouseWheel(deltaY) ==
    /\ InputAllowed /\ SpendInput
    /\ Listens("wheel")
    /\ \E r \in { Run(OnMouseWheel(CC, deltaY)) } :
           ControlsStep(
             [r EXCEPT
                !.updates = IF controls.enabled THEN 1 ELSE 0,
                !.panWrote =
                    FocusActive /\ r.cc.controls.target # controls.target],
             "wheel")

ContextMenu ==
    /\ InputAllowed /\ SpendInput
    /\ Listens("contextmenu")
    /\ ControlsStep(Run(OnContextMenu(CC)), "contextmenu")

TouchStart(touches) ==
    /\ InputAllowed /\ SpendInput
    /\ Listens("touchstart")
    /\ ControlsStep(Run(OnTouchStart(CC, touches)), "touchstart")

TouchMove(touches) ==
    /\ InputAllowed /\ SpendInput
    /\ Listens("touchmove")
    /\ ControlsStep(Run(OnTouchMove(CC, touches)), "touchmove")

TouchEnd ==
    /\ InputAllowed /\ SpendInput
    /\ Listens("touchend")
    /\ ControlsStep(Run(OnTouchEnd(CC)), "touchend")

\* controls.enabled = v, the public flag every handler reads first
SetEnabled(v) ==
    /\ InputAllowed /\ SpendInput
    /\ controls' = [controls EXCEPT !.enabled = v]
    /\ hist' = NoHist("setEnabled")
    /\ UNCHANGED << camera, bodies, starField, isPaused, globalSpeedMultiplier,
                    animationId, transitions, epoch, listeners, twin >>
    /\ UNCHANGED basic

\* destroy(), after cancelAnimationFrame: the controls are left as they
\* are, the animateCamera callbacks stay scheduled, and
\* window.removeEventListener("resize", this.onWindowResize) names the
\* method, not the arrow function that was registered
Destroy(c, ts, ls) ==
    [controls |-> c,
     transitions |-> ts,
     listeners |->
        ls \ { <<"window", "resize",
                 [method |-> "onWindowResize", bound |-> FALSE]>> }]

\* solarSystem.destroy()
DestroySystem ==
    /\ InputAllowed /\ SpendInput
    /\ animationId' = "cancelled"
    /\ \E d \in { Destroy(controls, transitions, listeners) } :
          /\ controls' = d.controls
          /\ transitions' = d.transitions
          /\ listeners' = d.listeners
    /\ hist' = NoHist("destroy")
    /\ epoch' = [epoch EXCEPT !.destroyed = TRUE]
    /\ UNCHANGED << camera, bodies, starField, isPaused,
                    globalSpeedMultiplier, twin >>
    /\ UNCHANGED basic

\* controls.dispose()
DisposeControls ==
    /\ InputAllowed /\ SpendInput
    /\ controls' = Dispose(controls)
    /\ hist' = NoHist("dispose")
    /\ epoch' = [epoch EXCEPT !.disposed = TRUE]
    /\ UNCHANGED << camera, bodies, starField, isPaused,
                    globalSpeedMultiplier, animationId, transitions,
                    listeners, twin >>
    /\ UNCHANGED basic

\* togglePause()
TogglePause ==
    /\ InputAllowed /\ SpendInput
    /\ SystemListens("pause-resume", "click")
    /\ isPaused' = ~isPaused
    /\ hist' = NoHist("togglePause")
    /\ epoch' = [epoch EXCEPT !.ticks = 0, !.toggledAt = bodies]
    /\ UNCHANGED << camera, controls, bodies, starField,
                    globalSpeedMultiplier, animationId, transitions, listeners,
                    twin >>
    /\ UNCHANGED basic

\* the "input" listener of the global speed slider
GlobalSpeedInput(v) ==
    /\ InputAllowed /\ SpendInput
    /\ SystemListens("global-speed", "input")
    /\ globalSpeedMultiplier' = v
    /\ hist' = NoHist("globalSpeed")
    /\ epoch' = [epoch EXCEPT !.calls = 0, !.start = bodies]
    /\ UNCHANGED << camera, controls, bodies, starField, isPaused,
                    animationId, transitions, listeners, twin >>
    /\ UNCHANGED basic

\* the "input" listener of the speed slider of planet key
\* the slider listener writing the speed of every planet
SetEverySpeed(b, key, v) ==
    [b EXCEPT !.planets =
        [k \in PlanetKeys |-> [b.planets[k] EXCEPT !.individualSpeed = v]]]

\* this.planets[planetKey].individualSpeed = speed
SetIndividualSpeed(b, key, v) ==
    [b EXCEPT !.planets[key].individualSpeed = v]

PlanetSpeedInput(key, v) ==
    /\ InputAllowed /\ SpendInput
    /\ SystemListens("speed-slider", "input")
    /\ bodies' = SetIndividualSpeed(bodies, key, v)
    /\ hist' = NoHist("planetSpeed")
    /\ epoch' = [epoch EXCEPT !.calls = 0, !.start = bodies']
    /\ twin' = [twin EXCEPT !.bodies = SetIndividualSpeed(@, key, v),
                             !.late = SetIndividualSpeed(@, key, v)]
    /\ UNCHANGED << camera, controls, starField, isPaused,
                    globalSpeedMultiplier, animationId, transitions, listeners >>
    /\ UNCHANGED basic

\* the frames a transition needs at most: Duration / the shortest frame time
FramesPerFocus == 2

\* focusOnObject(objectName): builds the closure and calls it once
FocusOnObject(objectName) ==
    /\ Started
    /\ SystemListens("camera-btn", "click")
    /\ budget.focus < MaxFocus
    /\ budget.frames + FramesPerFocus <= MaxFrames
    /\ budget' = [budget EXCEPT !.focus = @ + 1]
    /\ \E new \in { NewTransition(objectName, bodies, camera.position) } :
       \E r \in { IF new = << >> THEN Run(CC)
                  ELSE AnimateCamera(Run(CC), new[1], bodies) } :
          /\ camera' = r.cc.camera
          /\ controls' = r.cc.controls
          /\ transitions' = transitions \o r.pending
          /\ hist' = HistOf(r, "focusOnObject")
    /\ UNCHANGED << bodies, starField, isPaused, globalSpeedMultiplier,
                    animationId, epoch, listeners, twin >>
    /\ UNCHANGED basic

Next ==
    \/ \E dt \in FrameTimesNow(transitions) : Frame(dt)
    \/ \E b \in Buttons, p \in DownPoints : MouseDown(b, p)
    \/ \E p \in Points : MouseMove(p)
    \/ MouseUp
    \/ \E d \in WheelDeltas : MouseWheel(d)
    \/ \E t \in TouchLists : TouchStart(t)
    \/ \E t \in TouchLists : TouchMove(t)
    \/ TouchEnd
    \/ ContextMenu
    \/ TogglePause
    \/ \E v \in GlobalSpeeds : GlobalSpeedInput(v)
    \/ \E k \in SliderPlanets, v \in PlanetSpeeds : PlanetSpeedInput(k, v)
    \/ \E n \in FocusNames : FocusOnObject(n)
    \/ \E v \in BOOLEAN : SetEnabled(v)
    \/ DestroySystem
    \/ DisposeControls

Spec == Init /\ [][Next]_vars

(***************************************************************************)
(* The same program driven by a part of its inputs.                        *)
(***************************************************************************)
\* the camera controller: frames with mouse, wheel and touch input
NextControls ==
    \/ \E dt \in FrameTimesNow(transitions) : Frame(dt)
    \/ \E b \in Buttons, p \in DownPoints : MouseDown(b, p)
    \/ \E p \in Points : MouseMove(p)
    \/ MouseUp
    \/ \E d \in WheelDeltas : MouseWheel(d)
    \/ \E t \in TouchLists : TouchStart(t)
    \/ \E t \in TouchLists : TouchMove(t)
    \/ TouchEnd

SpecControls == Init /\ [][NextControls]_vars

\* the camera controller while its enabled flag is switched
NextEnabled ==
    \/ NextControls
    \/ ContextMenu
    \/ \E v \in BOOLEAN : SetEnabled(v)

SpecEnabled == Init /\ [][NextEnabled]_vars

\* teardown: frames, focus transitions, wheel and slider input around
\* destroy() and dispose()
NextTeardown ==
    \/ \E dt \in FrameTimesNow(transitions) : Frame(dt)
    \/ FocusOnObject("earth")
    \/ \E d \in WheelDeltas : MouseWheel(d)
    \/ \E k \in SliderPlanets : PlanetSpeedInput(k, 30)
    \/ DestroySystem
    \/ DisposeControls

SpecTeardown == Init /\ [][NextTeardown]_vars

\* the orbital motion: frames with the pause button and the speed sliders
NextMotion ==
    \/ \E dt \in FrameTimesNow(transitions) : Frame(dt)
    \/ TogglePause
    \/ \E v \in GlobalSpeeds : GlobalSpeedInput(v)
    \/ \E k \in SliderPlanets, v \in PlanetSpeeds : PlanetSpeedInput(k, v)

SpecMotion == Init /\ [][NextMotion]_vars

\* the orbital motion of two independent runs
SpecTwin == InitTwin /\ [][NextMotion]_vars

\* the focus transitions: frames with focusOnObject and the pause button
NextFocus ==
    \/ \E dt \in FrameTimesNow(transitions) : Frame(dt)
    \/ \E n \in FocusNames : FocusOnObject(n)
    \/ TogglePause

SpecFocus == Init /\ [][NextFocus]_vars

\* A step that counts a frame: Frame is the only action that changes
\* budget.frames, and it is enabled exactly when FrameTick is.
FrameTick ==
    /\ budget.frames < MaxFrames
    /\ budget' = [budget EXCEPT !.frames = @ + 1]

\* requestAnimationFrame keeps delivering frames: animate() re-arms itself
\* first thing in every call
SpecFocusFair == SpecFocus /\ WF_budget(FrameTick)

\* the focus transitions under mouse drags
NextFocusDrag ==
    \/ \E dt \in FrameTimesNow(transitions) : Frame(dt)
    \/ \E n \in FocusNames : FocusOnObject(n)
    \/ \E b \in Buttons, p \in DownPoints : MouseDown(b, p)
    \/ \E p \in Points : MouseMove(p)
    \/ MouseUp

SpecFocusDrag == Init /\ [][NextFocusDrag]_vars

\* the main loop among what could disturb it: pause, a pinch of two
\* fingers at one point, a multiplier above its range, unknown focus
\* names, destroy()
NextSchedule ==
    \/ \E dt \in FrameTimesNow(transitions) : Frame(dt)
    \/ TogglePause
    \/ TouchStart(<< <<0, 0>>, <<0, 0>> >>)
    \/ TouchMove(<< <<0, 0>>, <<0, 0>> >>)
    \/ GlobalSpeedInput(60)
    \/ \E n \in {"pluto", "constructor"} : FocusOnObject(n)
    \/ DestroySystem

SpecSchedule == Init /\ [][NextSchedule]_vars

\* the callers of update(): frames, paused or not, with a focus
\* transition, a drag and the wheel
NextUpdateCalls ==
    \/ \E dt \in FrameTimesNow(transitions) : Frame(dt)
    \/ FocusOnObject("earth")
    \/ TogglePause
    \/ \E p \in DownPoints : MouseDown(0, p)
    \/ \E p \in Points : MouseMove(p)
    \/ \E d \in WheelDeltas : MouseWheel(d)

SpecUpdateCalls == Init /\ [][NextUpdateCalls]_vars
(***************************************************************************)
(* The fallback controller's listeners.                                    *)
(***************************************************************************)
\* pointer positions and wheel deltas for the fallback controller: drags
\* inside and beyond the vertical limit, zooms inside and beyond the
\* distance limits
BasicPoints == { <<0, 0>>, <<100, 100>>, <<-300, -300>> }
BasicWheelDeltas == {-1000, -100, 100, 3000}
BasicTouchLists ==
    { << <<0, 0>> >>, << <<100, 300>> >>, << <<0, 0>>, <<100, 100>> >> }

BC == [basic |-> basic, camera |-> camera]

BasicStep(bc, op) ==
    /\ budget.inputs < MaxInputs
    /\ SpendInput
    /\ basic' = bc.basic
    /\ camera' = bc.camera
    /\ hist' = NoHist(op)
    /\ UNCHANGED << controls, bodies, starField, isPaused,
                    globalSpeedMultiplier, animationId, transitions, epoch,
                    listeners, twin >>

\* the seven listeners of setupBasicControls
NextBasic ==
    \/ \E p \in BasicPoints :
          BasicStep(OnBasicMouseDown(BC, p[1], p[2]), "mousedown")
    \/ BasicStep(OnBasicMouseUp(BC), "mouseup")
    \/ \E p \in BasicPoints :
          BasicStep(OnBasicMouseMove(BC, p[1], p[2]), "mousemove")
    \/ \E d \in BasicWheelDeltas : BasicStep(OnBasicWheel(BC, d), "wheel")
    \/ \E t \in BasicTouchLists :
          BasicStep(OnBasicTouchStart(BC, t), "touchstart")
    \/ BasicStep(OnBasicTouchEnd(BC), "touchend")
    \/ \E t \in BasicTouchLists :
          BasicStep(OnBasicTouchMove(BC, t), "touchmove")

SpecBasic == InitBasic /\ [][NextBasic]_vars

(***************************************************************************)
(* Properties of the camera controller, under SpecControls.                *)
(***************************************************************************)
\* the step that led here called update() at least once
Updated == hist.updates > 0

\* C1: at the end of every update() call spherical.phi lies in
\* [1e-6, pi - 1e-6] and spherical.radius in [minDistance, maxDistance],
\* whatever rotate, dolly (wheel, drag, pinch) and pan inputs came before.
C1_SphericalClamped ==
    Updated =>
        /\ PhiEps <= controls.spherical.phi
        /\ controls.spherical.phi <= PI - PhiEps
        /\ MinDistance <= controls.spherical.radius
        /\ controls.spherical.radius <= MaxDistance

\* C2: after any update() call scale equals 1, whatever dolly input was
\* accumulated before the call.
C2_ScaleIsOneAfterUpdate == Updated => controls.scale = Scale

\* a wheel step has dollied out by 0.95 from the initial radius 130 and
\* its update() has left scale at 1
C2_Witness ==
    /\ hist.op = "wheel"
    /\ Updated
    /\ controls.spherical.radius = MulDiv(1300, ZoomBase, Scale)
    /\ controls.scale = Scale

\* |b| < |a|, or both zero
Shrinks(a, b) ==
    \/ a = 0 /\ b = 0
    \/ IsFinite(a) /\ IsFinite(b) /\ Abs(b) < Abs(a)

\* C8: with damping enabled, a frame without new input (one update() call)
\* strictly shrinks, or keeps at zero, the magnitude of sphericalDelta.theta,
\* sphericalDelta.phi and every component of panOffset.
C8_DampingShrinks ==
    [][(controls.enableDamping /\ hist'.op = "animate" /\ hist'.updates = 1)
        => /\ Shrinks(controls.sphericalDelta.theta, controls'.sphericalDelta.theta)
           /\ Shrinks(controls.sphericalDelta.phi, controls'.sphericalDelta.phi)
           /\ \A i \in 1..3 : Shrinks(controls.panOffset[i], controls'.panOffset[i])
      ]_vars

\* C9: with damping disabled, one update() leaves sphericalDelta and
\* panOffset exactly zero.
C9_NoDampingZeroes ==
    (~controls.enableDamping /\ Updated) =>
        /\ controls.sphericalDelta = [theta |-> 0, phi |-> 0]
        /\ controls.panOffset = Zero3

\* damping is disabled, a rotate drag has turned the camera away from
\* theta = 0, and the update() of that mousemove has zeroed the deltas
C9_Witness ==
    /\ ~controls.enableDamping
    /\ hist.op = "mousemove"
    /\ Updated
    /\ controls.currentState = ROTATE
    /\ controls.spherical.theta # 0
    /\ controls.sphericalDelta = [theta |-> 0, phi |-> 0]
    /\ controls.panOffset = Zero3

(***************************************************************************)
(* Properties of the orbital motion, under SpecMotion.                     *)
(***************************************************************************)
\* the angles of b: the Sun's rotation, every planet's orbital angle, orbit
\* group rotation and mesh rotation, the moon's angle and rotation
Angles(b) ==
    [sun |-> b.sun,
     planets |->
        [k \in PlanetKeys |->
            << b.planets[k].angle, b.planets[k].orbitGroupRotation,
               b.planets[k].meshRotation >>],
     moons |-> b.moons]

\* C3: while the pause flag is set, any number of frames leaves the Sun's
\* rotation, every planet's orbital and rotation angle and the moon's angle
\* as they were when the flag was set, and each of those frames calls
\* controls.update().
C3_PauseFreezesBodies ==
    isPaused =>
        /\ Angles(bodies) = Angles(epoch.toggledAt)
        /\ hist.op = "animate" => Updated

\* two frames have run since the pause flag was set, at a non-zero global
\* speed, and the last of them called update()
C3_Witness ==
    /\ isPaused
    /\ epoch.ticks = 2
    /\ globalSpeedMultiplier > 0
    /\ hist.op = "animate"
    /\ Updated
    /\ Angles(bodies) = Angles(epoch.toggledAt)

\* C10: every updatePlanets call adds orbitalSpeed * globalSpeedMultiplier *
\* individualSpeed to a planet's angle and rotationSpeed *
\* globalSpeedMultiplier * individualSpeed to its mesh rotation: after k
\* calls with unchanged multipliers the angles are the starting angles plus
\* k times these increments.
C10_AngleIncrements ==
    \A k \in PlanetKeys :
        LET planet == bodies.planets[k]
            start == epoch.start.planets[k]
            factor == globalSpeedMultiplier * planet.individualSpeed
        IN  /\ planet.angle =
                  start.angle + epoch.calls * planetData[k].orbitalSpeed * factor
            /\ planet.meshRotation =
                  start.meshRotation
                      + epoch.calls * planetData[k].rotationSpeed * factor

\* the Earth (rate 0.01) after two calls at global speed 2 and individual
\* speed 3: 0.12 rad further
C10_Witness ==
    /\ epoch.calls = 2
    /\ globalSpeedMultiplier = 20
    /\ bodies.planets["earth"].individualSpeed = 30
    /\ bodies.planets["earth"].angle = epoch.start.planets["earth"].angle + 12000

\* C12: after every mouseup and every touchend event the interaction mode is
\* NONE, whatever mouse, touch and wheel events and changes of the enabled
\* flag came before.
C12_ReleaseClearsMode ==
    hist.op \in {"mouseup", "touchend"} => controls.currentState = NONE

\* C13: a two-finger touchmove that follows a pinch start recorded with
\* distance zero leaves scale a finite positive number.
C13_PinchGuarded ==
    [][(/\ hist.op = "touchstart"
        /\ controls.currentState = DOLLY
        /\ controls.dollyStart[2] = 0
        /\ \E t \in TouchLists : Len(t) = 2 /\ TouchMove(t))
       => (IsFinite(controls'.scale) /\ controls'.scale > 0)]_vars

\* C15: in every reachable state each planet's individualSpeed is in [0, 3]
\* and globalSpeedMultiplier is in [0, 5] (in 1/10: 0..30 and 0..50), whatever
\* value a slider event delivers.
C15_SpeedsInDomain ==
    /\ globalSpeedMultiplier \in 0..50
    /\ \A k \in PlanetKeys : bodies.planets[k].individualSpeed \in 0..30

\* C16: once destroy() and dispose() have both been called, no step
\* (input event or frame) changes the camera or the bodies.
C16_TeardownReleases ==
    [][(epoch.destroyed /\ epoch.disposed)
       => (camera' = camera /\ bodies' = bodies)]_vars

\* the angles a run has gained since its bodies were created
Gained(b, created) ==
    [sun |-> b.sun - created.sun,
     planets |->
        [k \in PlanetKeys |->
            << b.planets[k].angle - created.planets[k].angle,
               b.planets[k].meshRotation - created.planets[k].meshRotation >>],
     moons |->
        << b.moons.earth.angle - created.moons.earth.angle,
           b.moons.earth.rotation - created.moons.earth.rotation >>]

\* C11, as stated: two independent runs that receive the same frames and
\* the same slider values have the same orbital and rotation angles at every
\* moment.
C11_SameTrajectories == Angles(bodies) = Angles(twin.bodies)

\* C11, amended: the two runs differ by their random starting angles only.
\* Every body of both runs has gained the same orbital and rotation angle
\* since creation, and the rotation angles, which start at zero, are equal.
C11_SameGain ==
    /\ Gained(bodies, twin.mine) = Gained(twin.bodies, twin.created)
    /\ bodies.sun = twin.bodies.sun
    /\ bodies.moons = twin.bodies.moons
    /\ \A k \in PlanetKeys :
          bodies.planets[k].meshRotation = twin.bodies.planets[k].meshRotation

\* two runs created with different starting angles, after frames at the
\* slider values 2.0 and 3.0
C11_Witness ==
    /\ twin.created # twin.mine
    /\ hist.op = "animate"
    /\ epoch.calls = 2
    /\ globalSpeedMultiplier = 20
    /\ bodies.planets["earth"].individualSpeed = 30
    /\ bodies.planets["earth"].angle = twin.mine.planets["earth"].angle + 13000
    /\ Gained(bodies, twin.mine) = Gained(twin.bodies, twin.created)

(***************************************************************************)
(* Properties of the focus transitions, under SpecFocus, SpecFocusFair and *)
(* SpecFocusDrag.                                                          *)
(***************************************************************************)
\* C4: when a focus transition takes its last step, the camera is at the
\* precomputed end position and controls.target is the world position the
\* selected body has at that moment.
C4_FocusConverges ==
    \A i \in 1..Len(hist.finished) :
        /\ hist.finished[i].position = hist.finished[i].endPosition
        /\ hist.finished[i].target = hist.finished[i].world

\* C5: at most one focus transition is scheduled at any time.
C5_AtMostOneTransition == Len(transitions) <= 1

\* C6: while a focus transition is active no update() moves
\* controls.target by a pan offset.
C6_TransitionSoleWriter == ~hist.panWrote

\* C7: a scheduled transition has run for less than the duration (the step
\* that sees elapsed >= duration does not re-arm), and under continuing
\* frames every started transition stops.
C7_TransitionsTerminate ==
    /\ [](\A i \in 1..Len(transitions) : transitions[i].elapsed < Duration)
    /\ (FocusActive ~> ~FocusActive)

\* a frame has run the last step of a transition and nothing is scheduled
C7_Witness ==
    /\ hist.op = "animate"
    /\ Len(hist.finished) > 0
    /\ transitions = << >>
\* C14: focusOnObject with a name that is neither "sun" nor a key of the
\* planet table changes neither the camera nor the controller (its target
\* included), starts no transition and schedules no callback.
C14_UnknownFocusIsNoOp ==
    [][(\E n \in FocusNames \ ({"sun"} \cup PlanetKeys) : FocusOnObject(n))
       => UNCHANGED << camera, controls, transitions, animationId >>]_vars

\* focusOnObject with an unknown name has returned (it ran no update())
\* while an earlier transition is still scheduled
\* what one updatePlanets call adds to each angle of bodies b
Increments(b, g) ==
    [sun |-> UpdatePlanets(b, g, 1000).sun - b.sun,
     moonAngle |->
        UpdatePlanets(b, g, 1000).moons.earth.angle - b.moons.earth.angle,
     moonRotation |->
        UpdatePlanets(b, g, 1000).moons.earth.rotation
            - b.moons.earth.rotation,
     planets |->
        [k \in PlanetKeys |->
            [angle |->
                UpdatePlanets(b, g, 1000).planets[k].angle - b.planets[k].angle,
             rotation |-> UpdatePlanets(b, g, 1000).planets[k].meshRotation
                              - b.planets[k].meshRotation]]]

\* C17: a step of planet k's speed slider changes nothing of the bodies
\* but planet k's individualSpeed, and of the per-tick increments only
\* those of planet k; in every unpaused tick the Sun and the moon advance
\* by their rate times globalSpeedMultiplier alone.
C17_SpeedAffectsOnlyItsPlanet ==
    [][/\ \A k \in SliderPlanets :
            (\E v \in PlanetSpeeds : PlanetSpeedInput(k, v)) =>
                /\ bodies'.sun = bodies.sun
                /\ bodies'.moons = bodies.moons
                /\ \A j \in PlanetKeys \ {k} :
                        bodies'.planets[j] = bodies.planets[j]
                /\ [bodies'.planets[k] EXCEPT !.individualSpeed = 0]
                        = [bodies.planets[k] EXCEPT !.individualSpeed = 0]
                /\ \A g \in GlobalSpeeds :
                        [Increments(bodies', g) EXCEPT !.planets[k] = 0]
                            = [Increments(bodies, g) EXCEPT !.planets[k] = 0]
       /\ (hist'.op = "animate" /\ ~isPaused) =>
                /\ bodies'.sun - bodies.sun
                        = SunRotationRate * globalSpeedMultiplier * SpeedOne
                /\ bodies'.moons.earth.angle - bodies.moons.earth.angle
                        = MoonSpeed * globalSpeedMultiplier * SpeedOne
                /\ bodies'.moons.earth.rotation - bodies.moons.earth.rotation
                        = MoonRotationRate * globalSpeedMultiplier * SpeedOne
      ]_vars

\* the earth slider was set to 3x and a tick has run at 2x: the earth
\* gained with its own factor, mars with the default one
C17_Witness ==
    /\ hist.op = "animate"
    /\ epoch.calls = 1
    /\ globalSpeedMultiplier = 20
    /\ bodies.planets["earth"].individualSpeed = 30
    /\ bodies.planets["mars"].individualSpeed = 10
    /\ bodies.planets["earth"].angle - epoch.start.planets["earth"].angle
            = planetData["earth"].orbitalSpeed * 20 * 30
    /\ bodies.planets["mars"].angle - epoch.start.planets["mars"].angle
            = planetData["mars"].orbitalSpeed * 20 * 10

\* a rotating step (a mouse move in ROTATE mode, or a move of one finger)
\* subtracts from sphericalDelta the angle 2 * pi * d / perTurn of its
\* pixel deltas d; the update() that ends onMouseMove then settles it
RotateStepBy(perTurn) ==
    /\ \A t \in TouchLists :
            (Len(t) = 1 /\ TouchMove(t)) =>
                /\ controls'.sphericalDelta.theta =
                      FSub(controls.sphericalDelta.theta,
                           MulDiv(TwoPi, t[1][1] - controls.rotateStart[1],
                                  perTurn))
                /\ controls'.sphericalDelta.phi =
                      FSub(controls.sphericalDelta.phi,
                           MulDiv(TwoPi, t[1][2] - controls.rotateStart[2],
                                  perTurn))
    /\ \A p \in Points :
            (controls.currentState = ROTATE /\ MouseMove(p)) =>
                /\ controls'.sphericalDelta.theta =
                      Settle(controls,
                             FSub(controls.sphericalDelta.theta,
                                  MulDiv(TwoPi, p[1] - controls.rotateStart[1],
                                         perTurn)))
                /\ controls'.sphericalDelta.phi =
                      Settle(controls,
                             FSub(controls.sphericalDelta.phi,
                                  MulDiv(TwoPi, p[2] - controls.rotateStart[2],
                                         perTurn)))

\* C18: a rotate drag of D pixels accumulates 2 * pi * D / viewportHeight
\* into sphericalDelta, by mouse and by one finger.
C18_RotateFullTurn == [][RotateStepBy(ClientHeight)]_vars

\* C18, amended: a rotate drag of D pixels accumulates
\* 2 * pi * (0.01 * D) / viewportHeight into sphericalDelta, by mouse and
\* by one finger.
C18_RotateScaled == [][RotateStepBy(100 * ClientHeight)]_vars

\* one finger has moved by (1500, 2000) pixels from the recorded point
C18_Witness ==
    /\ hist.op = "touchmove"
    /\ controls.rotateStart = <<1500, 2000>>
    /\ controls.sphericalDelta.theta = 0 - MulDiv(TwoPi, 15, ClientHeight)
    /\ controls.sphericalDelta.phi = 0 - MulDiv(TwoPi, 20, ClientHeight)
    /\ controls.sphericalDelta.theta # 0

\* C19: update() runs exactly once in every frame and in no step between
\* two frames, and a frame runs updatePlanets exactly once when not
\* paused and not at all when paused.
C19_OneUpdatePerFrame ==
    [][/\ hist'.op = "animate" =>
            /\ hist'.updates = 1
            /\ \E dt \in FrameTimes :
                    bodies' = IF isPaused THEN bodies
                              ELSE UpdatePlanets(bodies, globalSpeedMultiplier,
                                                 dt)
       /\ hist'.op # "animate" => hist'.updates = 0
      ]_vars

\* C19, amended: in every frame animate() runs update() once and
\* updatePlanets once when not paused, and every scheduled animateCamera
\* callback runs update() once more; the start of a focus transition,
\* every mouse move of a drag and every wheel event run it once each.
C19_UpdateCallers ==
    [][/\ hist'.op = "animate" =>
            /\ hist'.updates = 1 + Len(transitions)
            /\ \E dt \in FrameTimes :
                    bodies' = IF isPaused THEN bodies
                              ELSE UpdatePlanets(bodies, globalSpeedMultiplier,
                                                 dt)
       /\ hist'.op \in {"focusOnObject", "mousemove", "wheel"} =>
            hist'.updates = 1
       /\ hist'.op \notin {"animate", "focusOnObject", "mousemove", "wheel"} =>
            hist'.updates = 0
      ]_vars

\* a frame in the middle of a drag and of a focus transition: update() ran
\* for animate() and for the animateCamera callback
C19_Witness ==
    /\ hist.op = "animate"
    /\ hist.updates = 2
    /\ controls.currentState = ROTATE
    /\ FocusActive
    /\ ~isPaused

\* C20: currentState is always one of NONE, ROTATE, DOLLY, PAN; a
\* mousedown with button 0, 1, 2 makes it ROTATE, DOLLY, PAN and a
\* touchstart with 1, 2 touches makes it ROTATE, DOLLY, whatever it was;
\* any other button or number of touches leaves it as it was.
C20_StartReplacesMode ==
    [][/\ controls.currentState \in {NONE, ROTATE, DOLLY, PAN}
       /\ controls'.currentState \in {NONE, ROTATE, DOLLY, PAN}
       /\ \A b \in Buttons, p \in DownPoints :
            MouseDown(b, p) =>
                controls'.currentState =
                    CASE b = 0 -> ROTATE
                      [] b = 1 -> DOLLY
                      [] b = 2 -> PAN
                      [] OTHER -> controls.currentState
       /\ \A t \in TouchLists :
            TouchStart(t) =>
                controls'.currentState =
                    CASE Len(t) = 1 -> ROTATE
                      [] Len(t) = 2 -> DOLLY
                      [] OTHER -> controls.currentState
      ]_vars

\* two fingers apart started a pinch (DOLLY) and the next input, a
\* mousedown with button 2, replaced it by PAN
C20_Witness ==
    /\ hist.op = "mousedown"
    /\ budget.inputs = 2
    /\ controls.dollyStart[2] # 0
    /\ controls.currentState = PAN

\* sphericalDelta and panOffset of c as the update() that ends
\* onMouseMove leaves them when the move itself added nothing
SettledDeltas(c) ==
    [sphericalDelta |->
        [theta |-> Settle(c, c.sphericalDelta.theta),
         phi |-> Settle(c, c.sphericalDelta.phi)],
     panOffset |->
        << Settle(c, c.panOffset[1]), Settle(c, c.panOffset[2]),
           Settle(c, c.panOffset[3]) >>]

\* C21: a move event adds to sphericalDelta only in mode ROTATE, to scale
\* only in mode DOLLY and to panOffset only in mode PAN; in mode NONE it
\* adds to none of them. A mouse move is followed by the settling of
\* update(); the touch moves are those of the fingers that remain after
\* one finger of a pinch was lifted (touchstart, touchend, touchmove).
C21_MoveMatchesMode ==
    [][/\ \A t \in TouchLists :
            (hist.op = "touchend" /\ controls.dollyStart[2] # 0
                /\ TouchMove(t)) =>
                /\ controls'.sphericalDelta # controls.sphericalDelta
                        => controls.currentState = ROTATE
                /\ controls'.scale # controls.scale
                        => controls.currentState = DOLLY
                /\ controls'.panOffset # controls.panOffset
                        => controls.currentState = PAN
       /\ \A p \in Points :
            MouseMove(p) =>
                /\ controls'.sphericalDelta
                            # SettledDeltas(controls).sphericalDelta
                        => controls.currentState = ROTATE
                /\ controls'.panOffset # SettledDeltas(controls).panOffset
                        => controls.currentState = PAN
      ]_vars

\* one step of a focus transition t on camera and controls cc: the
\* position at weight w between the captured start and the end, the
\* target at weight v between from and the destination, then update()
FocusStepWith(cc, t, w, v, from) ==
    Update([cc EXCEPT
              !.camera.position =
                  LerpVectors(t.startPosition, t.endPosition, w),
              !.controls.target = LerpVectors(from, t.targetPosition, v)])

\* the step with the eased weight for both, the target from where it is
FocusStepEased(cc, t, elapsed) ==
    FocusStepWith(cc, t, Eased(Progress(elapsed)), Eased(Progress(elapsed)),
                  cc.controls.target)

\* C22: a step of a focus transition puts the camera at
\* start + eased * (end - start) and the target at
\* start target + progress * (destination - start target), here for the
\* first frame after the transition began, when the target still is the
\* one at transition start.
C22_TargetLinear ==
    [][\A dt \in FrameTimes :
          (hist.op = "focusOnObject" /\ Len(transitions) = 1 /\ Frame(dt)) =>
              [controls |-> controls', camera |-> camera'] =
                  FocusStepWith(Update(CC), transitions[1],
                                Eased(Progress(dt)), Progress(dt),
                                controls.target)]_vars

\* C22, amended: a step of a focus transition puts the camera at
\* start + eased * (end - start) and moves the target from its current
\* value by the eased weight, target + eased * (destination - target),
\* and then runs update(): at the start of the transition and in every
\* frame, for each scheduled transition in turn after animate()'s update().
C22_FocusStep ==
    [][/\ \A n \in {"sun", "earth"} :
            FocusOnObject(n) =>
                [controls |-> controls', camera |-> camera'] =
                    FocusStepEased(
                        CC, NewTransition(n, bodies, camera.position)[1], 0)
       /\ \A dt \in FrameTimes :
            (Len(transitions) = 1 /\ Frame(dt)) =>
                [controls |-> controls', camera |-> camera'] =
                    FocusStepEased(Update(CC), transitions[1],
                                   transitions[1].elapsed + dt)
       /\ \A dt \in FrameTimes :
            (Len(transitions) = 2 /\ Frame(dt)) =>
                [controls |-> controls', camera |-> camera'] =
                    FocusStepEased(
                        FocusStepEased(Update(CC), transitions[1],
                                       transitions[1].elapsed + dt),
                        transitions[2], transitions[2].elapsed + dt)
      ]_vars

\* half of the duration of a transition to the earth has passed: the
\* target has left the origin and has not reached the earth
C22_Witness ==
    /\ hist.op = "animate"
    /\ Len(transitions) = 1
    /\ transitions[1].name = "earth"
    /\ transitions[1].elapsed = 1000
    /\ controls.target # Zero3
    /\ controls.target # transitions[1].targetPosition
    /\ controls.target = LerpVectors(Zero3, transitions[1].targetPosition, 8750)

\* C23: from the first animate() call until destroy() the main loop's
\* callback is pending after every step, and destroy() alone cancels it.
C23_LoopStaysScheduled ==
    /\ (hist.op # "init" /\ ~epoch.destroyed) => animationId = "pending"
    /\ animationId = "cancelled" => epoch.destroyed

\* a paused frame has run after the zero-distance pinch made the camera
\* position NaN, with the global multiplier above its range: the loop is
\* still scheduled
C23_Witness ==
    /\ hist.op = "animate"
    /\ isPaused
    /\ IsNaN(camera.position[1])
    /\ globalSpeedMultiplier = 60
    /\ animationId = "pending"

\* C24: a run that receives the same multipliers and the same number of
\* ticks with other deltaTime values has the same angles for every body.
C24_TimeIndependent == Angles(twin.late) = Angles(bodies)

\* two unpaused ticks at 2x have moved the earth, with deltaTime 2 s in
\* this run and 1 s in the other
C24_Witness ==
    /\ hist.op = "animate"
    /\ epoch.calls = 2
    /\ globalSpeedMultiplier = 20
    /\ bodies.planets["earth"].angle # twin.mine.planets["earth"].angle
    /\ twin.late.planets["earth"].angle = bodies.planets["earth"].angle

\* the multipliers are inside their domains, 0 to 5 and 0 to 3
InDomain ==
    /\ globalSpeedMultiplier \in 0..50
    /\ \A k \in PlanetKeys : bodies.planets[k].individualSpeed \in 0..30

\* C25: with the multipliers inside their domains no step decreases a
\* planet's orbital or rotation angle, the moon's angle or the Sun's
\* rotation, and an unpaused tick increases the Sun's and the moon's when
\* the global multiplier is positive and a planet's when its individual
\* multiplier is positive too.
C25_AnglesMonotone ==
    [][InDomain =>
        /\ bodies'.sun >= bodies.sun
        /\ bodies'.moons.earth.angle >= bodies.moons.earth.angle
        /\ bodies'.moons.earth.rotation >= bodies.moons.earth.rotation
        /\ \A k \in PlanetKeys :
                /\ bodies'.planets[k].angle >= bodies.planets[k].angle
                /\ bodies'.planets[k].meshRotation
                        >= bodies.planets[k].meshRotation
        /\ (hist'.op = "animate" /\ ~isPaused /\ globalSpeedMultiplier > 0) =>
                /\ bodies'.sun > bodies.sun
                /\ bodies'.moons.earth.angle > bodies.moons.earth.angle
                /\ \A k \in PlanetKeys :
                        bodies.planets[k].individualSpeed > 0 =>
                            /\ bodies'.planets[k].angle > bodies.planets[k].angle
                            /\ bodies'.planets[k].meshRotation
                                    > bodies.planets[k].meshRotation
      ]_vars

\* an unpaused tick at 2x with the earth's slider at 0: the earth has
\* stayed, mars and the Sun have advanced
C25_Witness ==
    /\ hist.op = "animate"
    /\ epoch.calls = 1
    /\ InDomain
    /\ globalSpeedMultiplier = 20
    /\ bodies.planets["earth"].individualSpeed = 0
    /\ bodies.planets["earth"].angle = epoch.start.planets["earth"].angle
    /\ bodies.planets["mars"].angle > epoch.start.planets["mars"].angle
    /\ bodies.sun > epoch.start.sun

\* scale after a wheel event of this deltaY and before update()
WheelScale(scale, deltaY) ==
    IF deltaY < 0 THEN FMul(scale, 9500)
    ELSE IF deltaY > 0 THEN FDiv(scale, 9500)
    ELSE scale

\* C26: a wheel event multiplies scale by 0.95 when deltaY < 0, divides it
\* by 0.95 when deltaY > 0 and leaves it when deltaY = 0, whatever the
\* magnitude of deltaY; update() applies it in the same step, and
\* currentState stays as it is.
C26_WheelDirectionOnly ==
    [][\A d \in WheelDeltas :
          MouseWheel(d) =>
              /\ hist'.updates = 1
              /\ controls'.currentState = controls.currentState
              /\ camera' =
                    Update([CC EXCEPT
                              !.controls.scale = WheelScale(@, d)]).camera
              /\ controls'.spherical =
                    Update([CC EXCEPT
                              !.controls.scale = WheelScale(@, d)])
                        .controls.spherical
      ]_vars

\* in the middle of a rotate drag the wheel has brought the camera from
\* distance 130 to 130 * 0.95
C26_Witness ==
    /\ hist.op = "wheel"
    /\ hist.updates = 1
    /\ controls.currentState = ROTATE
    /\ controls.spherical.radius = 1235

\* C27: while enabled is false no input handler changes currentState,
\* sphericalDelta, panOffset, scale, target or the camera position.
C27_DisabledIgnoresInput ==
    [][(/\ ~controls.enabled
        /\ hist'.op \in {"mousedown", "mousemove", "mouseup", "wheel",
                          "touchstart", "touchmove", "touchend",
                          "contextmenu"}) =>
            /\ controls'.currentState = controls.currentState
            /\ controls'.sphericalDelta = controls.sphericalDelta
            /\ controls'.panOffset = controls.panOffset
            /\ controls'.scale = controls.scale
            /\ controls'.target = controls.target
            /\ camera'.position = camera.position
      ]_vars

\* a rotate drag had begun when the controller was disabled, and a wheel
\* event has arrived since: no update() ran
C27_Witness ==
    /\ hist.op = "wheel"
    /\ hist.updates = 0
    /\ ~controls.enabled
    /\ controls.currentState = ROTATE

\* C28: in the fallback controller cameraAngleX stays in [-pi/2, pi/2] and
\* cameraDistance in [20, 400], and a mouse or touch move changes the
\* angles only while isMouseDown is true.
C28_BasicLimits ==
    [][/\ basic'.cameraAngleX >= -HalfPi /\ basic'.cameraAngleX <= HalfPi
       /\ basic'.cameraDistance >= 200 /\ basic'.cameraDistance <= 4000
       /\ (hist'.op \in {"mousemove", "touchmove"} /\ ~basic.isMouseDown) =>
            /\ basic'.cameraAngleX = basic.cameraAngleX
            /\ basic'.cameraAngleY = basic.cameraAngleY
      ]_vars

\* a drag upwards by 300 pixels has stopped at -pi/2 and the wheel has
\* stopped at the distance 400
C28_Witness ==
    /\ basic.isMouseDown
    /\ basic.cameraAngleX = -HalfPi
    /\ basic.cameraAngleY = -3000000
    /\ basic.cameraDistance = 4000

C14_Witness ==
    /\ hist.op = "focusOnObject"
    /\ hist.updates = 0
    /\ FocusActive
====
